---- MODULE Spec2Model ----
(***************************************************************************)
(* Model of the Engineer of ASI-GO-3 (src/engineer.py): code extraction,   *)
(* entry-point shim, sandboxed run with its temporary file, and semantic   *)
(* validation of the captured output.                                      *)
(*                                                                         *)
(* Python strings are modelled as sequences of one-character strings, so   *)
(* that substring tests, regular-expression scans, split/strip/join and    *)
(* integer parsing are computed the way the interpreter computes them.     *)
(* Python's None is the value None below, which is no character sequence.  *)
(* Confidence values (floats 0.0 .. 0.98) are kept in hundredths.          *)
(***************************************************************************)
EXTENDS Integers, Sequences, FiniteSets, TLC

VARIABLES
    test_results,   \* Engineer.test_results: the results appended so far
    tempFiles,      \* names of temporary files present on disk
    swallowed,      \* names whose os.unlink raised (the exception is swallowed)
    calls,          \* number of test_solution calls made
    lastCall,       \* the last test_solution call: proposal, environment, source written, result
    exText,         \* argument of extract_code
    exResult,       \* extract_code(exText)
    exAgain,        \* extract_code(exResult)
    vOutput,        \* argument output of validate_output
    vGoal,          \* argument goal of validate_output
    vResult,        \* the validation dict of validate_output(vOutput, vGoal)
    vReturned,      \* whether validate_output has returned it
    vRaised,        \* whether validate_output has raised instead of returning
    shCode,         \* extracted code handed to the main shim
    shGoal,         \* the goal of its proposal
    shSource        \* the code after the main shim

vars ==
    <<test_results, tempFiles, swallowed, calls, lastCall,
      exText, exResult, exAgain, vOutput, vGoal, vResult, vReturned, vRaised,
      shCode, shGoal, shSource>>

engineerVars ==
    <<test_results, tempFiles, swallowed, calls, lastCall>>

extractVars ==
    <<exText, exResult, exAgain>>

validateVars ==
    <<vOutput, vGoal, vResult, vReturned, vRaised>>

shimVars ==
    <<shCode, shGoal, shSource>>

----------------------------------------------------------------------------
(* String literals of the source, as character sequences.                  *)

None ==
    <<"None">>

\* the grave accent, which a TLA+ string cannot hold
Backtick ==
    "GRAVE"

Fence ==
    <<Backtick, Backtick, Backtick>>
TaggedOpen ==
    <<Backtick, Backtick, Backtick, "p", "y", "t", "h", "o", "n", "\n">>
UntaggedOpen ==
    <<Backtick, Backtick, Backtick, "\n">>
TokDefSp ==
    <<"d", "e", "f", " ">>
TokImportSp ==
    <<"i", "m", "p", "o", "r", "t", " ">>
TokFromSp ==
    <<"f", "r", "o", "m", " ">>
TokClassSp ==
    <<"c", "l", "a", "s", "s", " ">>
TokPrint ==
    <<"p", "r", "i", "n", "t">>
TokHash ==
    <<"#">>
TokImport ==
    <<"i", "m", "p", "o", "r", "t">>
TokFrom ==
    <<"f", "r", "o", "m">>
TokDef ==
    <<"d", "e", "f">>
TokClass ==
    <<"c", "l", "a", "s", "s">>
TokIf ==
    <<"i", "f">>
TokFor ==
    <<"f", "o", "r">>
TokWhile ==
    <<"w", "h", "i", "l", "e">>
TokReturn ==
    <<"r", "e", "t", "u", "r", "n">>
TokTry ==
    <<"t", "r", "y">>
TokExcept ==
    <<"e", "x", "c", "e", "p", "t">>
TokElif ==
    <<"e", "l", "i", "f">>
TokElse ==
    <<"e", "l", "s", "e">>
Colon ==
    <<":">>
TokDunderMain ==
    <<"_", "_", "m", "a", "i", "n", "_", "_">>
TokPrintCall ==
    <<"p", "r", "i", "n", "t", "(">>
KeyMain ==
    <<"m", "a", "i", "n">>
KeyFind ==
    <<"f", "i", "n", "d">>
KeyGet ==
    <<"g", "e", "t">>
KeyCalculate ==
    <<"c", "a", "l", "c", "u", "l", "a", "t", "e">>
KeySolve ==
    <<"s", "o", "l", "v", "e">>
WordPrime ==
    <<"p", "r", "i", "m", "e">>
WordFirst ==
    <<"f", "i", "r", "s", "t">>
WordFibonacci ==
    <<"f", "i", "b", "o", "n", "a", "c", "c", "i">>
ShimGuard ==
    <<"\n", "\n", "i", "f", " ", "_", "_", "n", "a", "m", "e", "_", "_", " ", "=", "=", " ", "\"", "_", "_", "m", "a", "i", "n", "_", "_", "\"", ":", "\n">>
ShimAssign ==
    <<" ", " ", " ", " ", "r", "e", "s", "u", "l", "t", " ", "=", " ">>
ShimClose ==
    <<")", "\n">>
ShimPrint ==
    <<" ", " ", " ", " ", "p", "r", "i", "n", "t", "(", "r", "e", "s", "u", "l", "t", ")", "\n">>
ShimDefaultArg ==
    <<"4", "0">>
NoteNoOutput ==
    <<"N", "o", " ", "o", "u", "t", "p", "u", "t", " ", "p", "r", "o", "d", "u", "c", "e", "d">>
NoteNoNumbers ==
    <<"N", "o", " ", "n", "u", "m", "b", "e", "r", "s", " ", "d", "e", "t", "e", "c", "t", "e", "d", " ", "i", "n", " ", "o", "u", "t", "p", "u", "t">>
NoteMatchesHead ==
    <<"O", "u", "t", "p", "u", "t", " ", "m", "a", "t", "c", "h", "e", "s", " ", "f", "i", "r", "s", "t", " ">>
NoteMatchesTail ==
    <<" ", "p", "r", "i", "m", "e", "s", " ", "e", "x", "a", "c", "t", "l", "y">>
NoteMismatchHead ==
    <<"F", "i", "r", "s", "t", " ">>
NoteMismatchTail ==
    <<" ", "n", "u", "m", "b", "e", "r", "s", " ", "d", "o", " ", "n", "o", "t", " ", "m", "a", "t", "c", "h", " ", "e", "x", "p", "e", "c", "t", "e", "d", " ", "p", "r", "i", "m", "e", " ", "s", "e", "q", "u", "e", "n", "c", "e">>
NoteSmallPrimes ==
    <<"O", "u", "t", "p", "u", "t", " ", "c", "o", "n", "t", "a", "i", "n", "s", " ", "s", "e", "v", "e", "r", "a", "l", " ", "c", "o", "r", "r", "e", "c", "t", " ", "s", "m", "a", "l", "l", " ", "p", "r", "i", "m", "e", "s">>
NoteMaybeNotPrimes ==
    <<"N", "u", "m", "b", "e", "r", "s", " ", "f", "o", "u", "n", "d", " ", "b", "u", "t", " ", "m", "a", "y", " ", "n", "o", "t", " ", "a", "l", "l", " ", "b", "e", " ", "p", "r", "i", "m", "e", "s">>
NoteFibPrefix ==
    <<"O", "u", "t", "p", "u", "t", " ", "b", "e", "g", "i", "n", "s", " ", "w", "i", "t", "h", " ", "a", " ", "v", "a", "l", "i", "d", " ", "F", "i", "b", "o", "n", "a", "c", "c", "i", " ", "p", "r", "e", "f", "i", "x">>
NoteFibUnclear ==
    <<"N", "u", "m", "b", "e", "r", "s", " ", "p", "r", "e", "s", "e", "n", "t", " ", "b", "u", "t", " ", "F", "i", "b", "o", "n", "a", "c", "c", "i", " ", "p", "a", "t", "t", "e", "r", "n", " ", "u", "n", "c", "l", "e", "a", "r">>
NoteFibTooFew ==
    <<"T", "o", "o", " ", "f", "e", "w", " ", "n", "u", "m", "b", "e", "r", "s", " ", "f", "o", "u", "n", "d", " ", "f", "o", "r", " ", "F", "i", "b", "o", "n", "a", "c", "c", "i", " ", "v", "a", "l", "i", "d", "a", "t", "i", "o", "n">>
NoteNontrivial ==
    <<"P", "r", "o", "d", "u", "c", "e", "d", " ", "n", "o", "n", "t", "r", "i", "v", "i", "a", "l", " ", "o", "u", "t", "p", "u", "t">>
ErrNoCode ==
    <<"N", "o", " ", "e", "x", "e", "c", "u", "t", "a", "b", "l", "e", " ", "c", "o", "d", "e", " ", "f", "o", "u", "n", "d", " ", "i", "n", " ", "s", "o", "l", "u", "t", "i", "o", "n">>
IssueNoCode ==
    <<"S", "o", "l", "u", "t", "i", "o", "n", " ", "m", "u", "s", "t", " ", "i", "n", "c", "l", "u", "d", "e", " ", "P", "y", "t", "h", "o", "n", " ", "c", "o", "d", "e">>
IssueFailed ==
    <<"C", "o", "d", "e", " ", "e", "x", "e", "c", "u", "t", "i", "o", "n", " ", "f", "a", "i", "l", "e", "d">>
ErrTimedOut ==
    <<"C", "o", "d", "e", " ", "e", "x", "e", "c", "u", "t", "i", "o", "n", " ", "t", "i", "m", "e", "d", " ", "o", "u", "t">>
IssueTimeout ==
    <<"T", "i", "m", "e", "o", "u", "t", "E", "x", "p", "i", "r", "e", "d">>
IssueUnexpected ==
    <<"U", "n", "e", "x", "p", "e", "c", "t", "e", "d", " ", "e", "r", "r", "o", "r", ":", " ">>
OpenParen ==
    <<"(">>
CloseParen ==
    <<")">>

----------------------------------------------------------------------------
(* Python string primitives.                                               *)

Min(S) ==
    CHOOSE x \in S : \A y \in S : x <= y

Max(S) ==
    CHOOSE x \in S : \A y \in S : x >= y

\* p occurs in s at index i
MatchAt(p, s, i) ==
    /\ i >= 1
    /\ i + Len(p) - 1 <= Len(s)
    /\ \A k \in 1..Len(p) : s[i + k - 1] = p[k]

\* p in s
Contains(s, p) ==
    \E i \in 1..(Len(s) + 1) : MatchAt(p, s, i)

\* s.startswith(p)
StartsWith(s, p) ==
    MatchAt(p, s, 1)

\* s.endswith(p)
EndsWith(s, p) ==
    Len(p) <= Len(s) /\ MatchAt(p, s, Len(s) - Len(p) + 1)

\* least index j >= i at which p occurs in s, 0 when there is none
FindFrom(s, p, i) ==
    LET hits == {j \in i..Len(s) : MatchAt(p, s, j)}
    IN  IF hits = {} THEN 0 ELSE Min(hits)

IsSpace(c) ==
    c \in {" ", "\n", "\t", "\r", "\f"}

IsDigit(c) ==
    c \in {"0", "1", "2", "3", "4", "5", "6", "7", "8", "9"}

Lowers ==
    <<"a", "b", "c", "d", "e", "f", "g", "h", "i", "j", "k", "l", "m",
      "n", "o", "p", "q", "r", "s", "t", "u", "v", "w", "x", "y", "z">>

Uppers ==
    <<"A", "B", "C", "D", "E", "F", "G", "H", "I", "J", "K", "L", "M",
      "N", "O", "P", "Q", "R", "S", "T", "U", "V", "W", "X", "Y", "Z">>

IsUpper(c) ==
    \E k \in 1..26 : Uppers[k] = c

IsLower(c) ==
    \E k \in 1..26 : Lowers[k] = c

\* the regular-expression class \w
IsWord(c) ==
    IsUpper(c) \/ IsLower(c) \/ IsDigit(c) \/ c = "_"

LowerChar(c) ==
    IF IsUpper(c) THEN Lowers[CHOOSE k \in 1..26 : Uppers[k] = c] ELSE c

\* s.lower()
Lower(s) ==
    [k \in 1..Len(s) |-> LowerChar(s[k])]

RECURSIVE FirstNonSpace(_, _)
\* the index of the first character of s at or after i that is no whitespace;
\* Len(s) + 1 when there is none
FirstNonSpace(s, i) ==
    IF i > Len(s) \/ ~IsSpace(s[i]) THEN i ELSE FirstNonSpace(s, i + 1)

RECURSIVE LastNonSpace(_, _)
\* the index of the last character of s at or before i that is no whitespace;
\* 0 when there is none
LastNonSpace(s, i) ==
    IF i = 0 \/ ~IsSpace(s[i]) THEN i ELSE LastNonSpace(s, i - 1)

\* s.strip()
Strip(s) ==
    SubSeq(s, FirstNonSpace(s, 1), LastNonSpace(s, Len(s)))

RECURSIVE SplitFrom(_, _)
\* the lines of s from index i on, split at "\n"
SplitFrom(s, i) ==
    LET j == FindFrom(s, <<"\n">>, i)
    IN  IF j = 0 THEN <<SubSeq(s, i, Len(s))>>
        ELSE <<SubSeq(s, i, j - 1)>> \o SplitFrom(s, j + 1)

\* s.split("\n")
SplitLines(s) ==
    SplitFrom(s, 1)

RECURSIVE JoinLines(_)
\* "\n".join(lines)
JoinLines(lines) ==
    IF Len(lines) = 0 THEN <<>>
    ELSE IF Len(lines) = 1 THEN lines[1]
    ELSE lines[1] \o <<"\n">> \o JoinLines(Tail(lines))

RECURSIVE Concat(_)
\* the concatenation of a sequence of strings
Concat(parts) ==
    IF Len(parts) = 0 THEN <<>> ELSE parts[1] \o Concat(Tail(parts))

\* max(matches, key=len): the first of the longest
MaxByLen(matches) ==
    LET top == Max({Len(matches[k]) : k \in 1..Len(matches)})
    IN  matches[Min({k \in 1..Len(matches) : Len(matches[k]) = top})]

----------------------------------------------------------------------------
(* Engineer.extract_code                                                   *)

RECURSIVE FencedFrom(_, _, _)
\* re.findall(open + r"(.*?)```", s, re.DOTALL) from index i: leftmost opener,
\* shortest body up to the next fence, then on after that fence
FencedFrom(s, open, i) ==
    LET o == FindFrom(s, open, i)
        b == o + Len(open)
        c == FindFrom(s, Fence, b)
    IN  IF o = 0 \/ c = 0 THEN <<>>
        ELSE <<SubSeq(s, b, c - 1)>> \o FencedFrom(s, open, c + Len(Fence))

FencedBlocks(s, open) ==
    FencedFrom(s, open, 1)

\* stripped.startswith(("import ", "from ", "def ", "class "))
StartsCode(stripped) ==
    \E p \in {TokImportSp, TokFromSp, TokDefSp, TokClassSp} : StartsWith(stripped, p)

StatementPrefixes ==
    {TokHash, TokImport, TokFrom, TokDef, TokClass, TokIf, TokFor, TokWhile,
     TokReturn, TokPrint, TokTry, TokExcept, TokElif, TokElse}

\* the line at which the scan breaks: non-empty, no statement prefix, no final colon
ReentersProse(stripped) ==
    /\ stripped # <<>>
    /\ ~\E p \in StatementPrefixes : StartsWith(stripped, p)
    /\ ~EndsWith(stripped, Colon)

RECURSIVE ScanLinesStripping(_, _, _, _)
\* ScanLines with a slip: the stripped line is collected, not the line
ScanLinesStripping(lines, k, in_code, code_lines) ==
    IF k > Len(lines) THEN code_lines
    ELSE LET stripped == Strip(lines[k])
             now_in == in_code \/ StartsCode(stripped)
         IN  IF ~now_in THEN ScanLinesStripping(lines, k + 1, FALSE, code_lines)
             ELSE IF ReentersProse(stripped) THEN code_lines
             ELSE ScanLinesStripping(lines, k + 1, TRUE, Append(code_lines, stripped))

RECURSIVE ScanLines(_, _, _, _)
\* the for loop over lines, from line k with the loop's in_code and code_lines
ScanLines(lines, k, in_code, code_lines) ==
    IF k > Len(lines) THEN code_lines
    ELSE LET stripped == Strip(lines[k])
             now_in == in_code \/ StartsCode(stripped)
         IN  IF ~now_in THEN ScanLines(lines, k + 1, FALSE, code_lines)
             ELSE IF ReentersProse(stripped) THEN code_lines
             ELSE ScanLines(lines, k + 1, TRUE, Append(code_lines, lines[k]))

HasCodeToken(code) ==
    Contains(code, TokDefSp) \/ Contains(code, TokImportSp) \/ Contains(code, TokPrint)

\* extract_code with a slip: the longest fenced block, tagged or not
extract_code_LongestFenced(solution) ==
    LET fenced == FencedBlocks(solution, TaggedOpen) \o FencedBlocks(solution, UntaggedOpen)
        code_lines == ScanLines(SplitLines(solution), 1, FALSE, <<>>)
    IN  IF fenced # <<>> THEN MaxByLen(fenced)
        ELSE IF code_lines # <<>> THEN JoinLines(code_lines)
        ELSE None

extract_code(solution) ==
    LET tagged == FencedBlocks(solution, TaggedOpen)
        untagged == FencedBlocks(solution, UntaggedOpen)
        code_lines == ScanLines(SplitLines(solution), 1, FALSE, <<>>)
    IN  IF tagged # <<>> THEN MaxByLen(tagged)
        ELSE IF untagged # <<>> /\ HasCodeToken(MaxByLen(untagged)) THEN MaxByLen(untagged)
        ELSE IF code_lines # <<>> THEN JoinLines(code_lines)
        ELSE None


----------------------------------------------------------------------------
(* _is_prime, _first_n_primes and Engineer.validate_output                 *)

RECURSIVE TrialDivision(_, _, _)
\* the while loop of _is_prime from candidate divisor f with the current step
TrialDivision(n, f, step) ==
    IF f * f > n THEN TRUE
    ELSE IF n % f = 0 THEN FALSE
    ELSE TrialDivision(n, f + step, 6 - step)

RECURSIVE TrialDivisionStep6(_, _)
\* trial division by f, f + 6, f + 12, ...: the candidates 6k+1 are left out
TrialDivisionStep6(n, f) ==
    IF f * f > n THEN TRUE
    ELSE IF n % f = 0 THEN FALSE
    ELSE TrialDivisionStep6(n, f + 6)

\* _is_prime with a slip: the step does not alternate between 2 and 4
_is_prime_Step6(n) ==
    IF n < 2 THEN FALSE
    ELSE IF n \in {2, 3} THEN TRUE
    ELSE IF n % 2 = 0 \/ n % 3 = 0 THEN FALSE
    ELSE TrialDivisionStep6(n, 5)

_is_prime(n) ==
    IF n < 2 THEN FALSE
    ELSE IF n \in {2, 3} THEN TRUE
    ELSE IF n % 2 = 0 \/ n % 3 = 0 THEN FALSE
    ELSE TrialDivision(n, 5, 2)

RECURSIVE PrimesFrom(_, _, _)
\* the while loop of _first_n_primes from candidate x with the primes found
PrimesFrom(n, x, primes) ==
    IF Len(primes) >= n THEN primes
    ELSE PrimesFrom(n, x + 1, IF _is_prime(x) THEN Append(primes, x) ELSE primes)

_first_n_primes(n) ==
    PrimesFrom(n, 2, <<>>)

\* the last index of the run of digits of s that starts at index i
DigitRunEnd(s, i) ==
    LET stops == {j \in i..Len(s) : ~IsDigit(s[j])}
    IN  IF stops = {} THEN Len(s) ELSE Min(stops) - 1

RECURSIVE SignedRunsFrom(_, _)
\* re.findall(r"-?\d+", s) from index i
SignedRunsFrom(s, i) ==
    IF i > Len(s) THEN <<>>
    ELSE IF IsDigit(s[i])
        THEN <<SubSeq(s, i, DigitRunEnd(s, i))>> \o SignedRunsFrom(s, DigitRunEnd(s, i) + 1)
    ELSE IF s[i] = "-" /\ i < Len(s) /\ IsDigit(s[i + 1])
        THEN <<SubSeq(s, i, DigitRunEnd(s, i + 1))>>
                 \o SignedRunsFrom(s, DigitRunEnd(s, i + 1) + 1)
    ELSE SignedRunsFrom(s, i + 1)

RECURSIVE DigitRunsFrom(_, _)
\* re.findall(r"\d+", s) from index i
DigitRunsFrom(s, i) ==
    IF i > Len(s) THEN <<>>
    ELSE IF IsDigit(s[i])
        THEN <<SubSeq(s, i, DigitRunEnd(s, i))>> \o DigitRunsFrom(s, DigitRunEnd(s, i) + 1)
    ELSE DigitRunsFrom(s, i + 1)

Digits ==
    <<"0", "1", "2", "3", "4", "5", "6", "7", "8", "9">>

DigitValue(c) ==
    (CHOOSE k \in 1..10 : Digits[k] = c) - 1

RECURSIVE DigitsValue(_)
DigitsValue(ds) ==
    IF Len(ds) = 0 THEN 0
    ELSE 10 * DigitsValue(SubSeq(ds, 1, Len(ds) - 1)) + DigitValue(ds[Len(ds)])

\* sys.int_info.default_max_str_digits: the longest digit string that int()
\* converts; a longer one makes it raise ValueError
IntMaxStrDigits ==
    4300

\* whether int(token) raises for a token of -?\d+ (the sign is not counted)
IntRaises(token) ==
    LET digits == IF token[1] = "-" THEN Tail(token) ELSE token
    IN  Len(digits) > IntMaxStrDigits

\* int(token) for a token of -?\d+ that it converts
ToInt(token) ==
    IF token[1] = "-" THEN 0 - DigitsValue(Tail(token)) ELSE DigitsValue(token)

RECURSIVE NatStr(_)
\* the decimal text of a natural number, as an f-string formats it
NatStr(n) ==
    IF n < 10 THEN <<Digits[n + 1]>> ELSE NatStr(n \div 10) \o <<Digits[(n % 10) + 1]>>

\* [int(n) for n in re.findall(r"-?\d+", output)]
OutputNumbers(output) ==
    LET runs == SignedRunsFrom(output, 1)
    IN  [k \in 1..Len(runs) |-> ToInt(runs[k])]

\* whether the list comprehension over the output raises: no handler encloses it
OutputNumbersRaise(output) ==
    LET runs == SignedRunsFrom(output, 1)
    IN  \E k \in 1..Len(runs) : IntRaises(runs[k])

\* numbers[:n]
Take(numbers, n) ==
    SubSeq(numbers, 1, IF n < Len(numbers) THEN n ELSE Len(numbers))

\* p in numbers
InList(p, numbers) ==
    \E k \in 1..Len(numbers) : numbers[k] = p

Validation(meets_goal, confidence, notes) ==
    [meets_goal |-> meets_goal, confidence |-> confidence, notes |-> notes]

\* the branch of validate_output for a goal that contains "prime"
ValidatePrime(output, goal_lower) ==
    LET numbers == OutputNumbers(output)
        nums_in_goal == DigitRunsFrom(goal_lower, 1)
        target_n == IF nums_in_goal # <<>> /\ ~IntRaises(nums_in_goal[1])
                    THEN ToInt(nums_in_goal[1]) ELSE 0
        has_target == nums_in_goal # <<>> /\ target_n # 0
    IN  IF numbers = <<>> THEN Validation(FALSE, 0, <<NoteNoNumbers>>)
        ELSE IF Contains(goal_lower, WordFirst) /\ has_target
            THEN IF Take(numbers, target_n) = _first_n_primes(target_n)
                 THEN Validation(TRUE, 98,
                          <<NoteMatchesHead \o NatStr(target_n) \o NoteMatchesTail>>)
                 ELSE Validation(FALSE, 20,
                          <<NoteMismatchHead \o NatStr(target_n) \o NoteMismatchTail>>)
        ELSE IF \A p \in {2, 3, 5, 7, 11} :
                    InList(p, Take(numbers, IF Len(numbers) > 10 THEN Len(numbers) ELSE 10))
            THEN Validation(TRUE, 80, <<NoteSmallPrimes>>)
        ELSE Validation(FALSE, 30, <<NoteMaybeNotPrimes>>)

\* the branch of validate_output for a goal that contains "fibonacci"
ValidateFibonacci(output) ==
    LET numbers == OutputNumbers(output)
    IN  IF Len(numbers) >= 5
        THEN IF Take(numbers, 5) \in {<<0, 1, 1, 2, 3>>, <<1, 1, 2, 3, 5>>}
             THEN Validation(TRUE, 90, <<NoteFibPrefix>>)
             ELSE Validation(FALSE, 40, <<NoteFibUnclear>>)
        ELSE Validation(FALSE, 0, <<NoteFibTooFew>>)

\* the generic branch of validate_output
ValidateGeneric(output) ==
    IF Len(Strip(output)) > 10
    THEN Validation(TRUE, 50, <<NoteNontrivial>>)
    ELSE Validation(FALSE, 0, <<>>)

\* whether validate_output(output, goal) raises (ValueError from int) instead of
\* returning
validate_output_raises(output, goal) ==
    /\ output # <<>>
    /\ Strip(output) # <<>>
    /\ Contains(Lower(goal), WordPrime) \/ Contains(Lower(goal), WordFibonacci)
    /\ OutputNumbersRaise(output)

\* the validation dict that validate_output(output, goal) returns when it returns
validate_output(output, goal) ==
    IF output = <<>> \/ Strip(output) = <<>> THEN Validation(FALSE, 0, <<NoteNoOutput>>)
    ELSE IF Contains(Lower(goal), WordPrime) THEN ValidatePrime(output, Lower(goal))
    ELSE IF Contains(Lower(goal), WordFibonacci) THEN ValidateFibonacci(output)
    ELSE ValidateGeneric(output)

----------------------------------------------------------------------------
(* Engineer.test_solution: the main shim                                   *)

\* the last index of the run of whitespace that starts at index i of s; i - 1
\* when the character at i is not whitespace
SpaceRunEnd(s, i) ==
    LET stops == {j \in i..Len(s) : ~IsSpace(s[j])}
    IN  IF stops = {} THEN Len(s) ELSE Min(stops) - 1

\* the same for a run of word characters
WordRunEnd(s, i) ==
    LET stops == {j \in i..Len(s) : ~IsWord(s[j])}
    IN  IF stops = {} THEN Len(s) ELSE Min(stops) - 1

\* a match of def\s+(\w+)\s*\([^)]*\): at index o of s, as <<name, end>>, or <<>>
DefMatchAt(s, o) ==
    LET sp == SpaceRunEnd(s, o + Len(TokDef))
        nm == WordRunEnd(s, sp + 1)
        ws == SpaceRunEnd(s, nm + 1)
        cl == FindFrom(s, CloseParen, ws + 2)
    IN  IF /\ MatchAt(TokDef, s, o)
           /\ sp >= o + Len(TokDef)
           /\ nm >= sp + 1
           /\ MatchAt(OpenParen, s, ws + 1)
           /\ cl # 0
           /\ MatchAt(Colon, s, cl + 1)
        THEN <<SubSeq(s, sp + 1, nm), cl + 1>>
        ELSE <<>>

RECURSIVE FunctionsFrom(_, _)
\* re.findall(r"def\s+(\w+)\s*\([^)]*\):", s) from index i
FunctionsFrom(s, i) ==
    LET o == FindFrom(s, TokDef, i)
        m == DefMatchAt(s, o)
    IN  IF o = 0 THEN <<>>
        ELSE IF m = <<>> THEN FunctionsFrom(s, o + 1)
        ELSE <<m[1]>> \o FunctionsFrom(s, m[2] + 1)

MainKeys ==
    {KeyMain, KeyFind, KeyGet, KeyCalculate, KeySolve}

LooksLikeMain(func) ==
    \E k \in MainKeys : Contains(Lower(func), k)

\* selected_main_func: the first function with a key in its name, else the last
\* function, None when there is no function
SelectMainFunc(functions) ==
    IF functions = <<>> THEN None
    ELSE IF \E k \in 1..Len(functions) : LooksLikeMain(functions[k])
        THEN functions[Min({k \in 1..Len(functions) : LooksLikeMain(functions[k])})]
    ELSE functions[Len(functions)]

\* ShimArgument with a slip: the last number of the goal, not the first
ShimArgument_LastNumber(goal_lower) ==
    LET numbers == DigitRunsFrom(goal_lower, 1)
    IN  IF Contains(goal_lower, WordPrime) /\ numbers # <<>> THEN numbers[Len(numbers)]
        ELSE IF Contains(goal_lower, WordPrime) /\ Contains(goal_lower, WordFirst)
            THEN ShimDefaultArg
        ELSE <<>>

\* the argument text of the call in the shim
ShimArgument(goal_lower) ==
    LET numbers == DigitRunsFrom(goal_lower, 1)
    IN  IF Contains(goal_lower, WordPrime) /\ numbers # <<>> THEN numbers[1]
        ELSE IF Contains(goal_lower, WordPrime) /\ Contains(goal_lower, WordFirst)
            THEN ShimDefaultArg
        ELSE <<>>

\* the text appended to the code: a guarded call of func that prints its result
Shim(func, argument) ==
    ShimGuard \o ShimAssign \o func \o OpenParen \o argument \o ShimClose \o ShimPrint

\* the code test_solution writes to the temporary file
MainShim(code, goal) ==
    LET has_main == Contains(code, TokDunderMain) \/ Contains(code, TokPrintCall)
        selected_main_func == SelectMainFunc(FunctionsFrom(code, 1))
    IN  IF has_main \/ selected_main_func = None THEN code
        ELSE code \o Shim(selected_main_func, ShimArgument(Lower(goal)))

----------------------------------------------------------------------------
(* extract_code as a pure function: the texts it is applied to.            *)

MaxPieces ==
    6

MaxLines ==
    3

PieceDef ==
    <<"d", "e", "f", " ", "f", "(", ")", ":", "\n">>
PieceProse ==
    <<"h", "i", "\n">>
PiecePrint ==
    <<"p", "r", "i", "n", "t", "(", "1", ")", "\n">>
LineDef ==
    <<"d", "e", "f", " ", "f", "(", ")", ":">>
LineReturn ==
    <<" ", " ", "r", "e", "t", "u", "r", "n", " ", "1">>
LineAssign ==
    <<"x", " ", "=", " ", "1">>
LineEmpty ==
    <<>>
LineBlank ==
    <<" ", " ">>
LineLabel ==
    <<"h", "i", ":">>
LineImport ==
    <<"i", "m", "p", "o", "r", "t", " ", "o", "s">>

SeqsUpTo(S, n) ==
    UNION {[1..k -> S] : k \in 0..n}

\* texts with fences: up to MaxPieces openers, fences and lines
FencedPieces ==
    {TaggedOpen, UntaggedOpen, PieceDef, PieceProse, PiecePrint}

\* texts without fences: up to MaxLines lines
LinePieces ==
    {LineDef, LineReturn, LineAssign, LineEmpty, LineBlank, LineLabel, LineImport}

ExTexts ==
    {Concat(ps) : ps \in SeqsUpTo(FencedPieces, MaxPieces)}
        \cup {JoinLines(ls) : ls \in SeqsUpTo(LinePieces, MaxLines) \ {<<>>}}

----------------------------------------------------------------------------
(* validate_output as a pure function: the outputs and goals it is applied *)
(* to.                                                                     *)

MaxOutPieces ==
    3

OutZero ==
    <<"0", ",">>
OutOneOne ==
    <<"1", ",", "1", ",">>
OutTwoThree ==
    <<"2", ",", "3", ",">>
OutFive ==
    <<"5", ",">>
OutSevenEleven ==
    <<"7", ",", "1", "1", ",">>
OutMinus ==
    <<"-">>
OutSpace ==
    <<" ">>
OutWord ==
    <<"a", "b">>
GoalFirst3 ==
    <<"f", "i", "n", "d", " ", "t", "h", "e", " ", "f", "i", "r", "s", "t", " ", "3", " ", "p", "r", "i", "m", "e", "s">>
GoalFirst2Caps ==
    <<"F", "i", "r", "s", "t", " ", "2", " ", "P", "R", "I", "M", "E", " ", "n", "u", "m", "b", "e", "r", "s">>
GoalFirst16 ==
    <<"f", "i", "r", "s", "t", " ", "1", "6", " ", "p", "r", "i", "m", "e", "s">>
GoalFirstNoCount ==
    <<"l", "i", "s", "t", " ", "t", "h", "e", " ", "f", "i", "r", "s", "t", " ", "p", "r", "i", "m", "e", "s">>
GoalFirst0 ==
    <<"f", "i", "r", "s", "t", " ", "0", " ", "p", "r", "i", "m", "e", "s">>
GoalPrimesBelow ==
    <<"p", "r", "i", "m", "e", "s", " ", "b", "e", "l", "o", "w", " ", "1", "2">>
GoalFibonacci ==
    <<"F", "i", "b", "o", "n", "a", "c", "c", "i", " ", "s", "e", "q", "u", "e", "n", "c", "e">>
GoalGeneric ==
    <<"s", "o", "r", "t", " ", "a", " ", "l", "i", "s", "t">>

\* captured outputs: up to MaxOutPieces numbers, signs, blanks and words
OutPieces ==
    {OutZero, OutOneOne, OutTwoThree, OutFive, OutSevenEleven, OutMinus, OutSpace, OutWord}

\* a run of digits one longer than int() converts
OutLongRun ==
    [k \in 1..(IntMaxStrDigits + 1) |-> "1"]

LongOutputs ==
    {OutLongRun, OutMinus \o OutLongRun, OutTwoThree \o OutLongRun,
     OutWord \o OutLongRun \o OutSpace}

VOutputs ==
    {Concat(ps) : ps \in SeqsUpTo(OutPieces, MaxOutPieces)} \cup LongOutputs

VGoals ==
    {GoalFirst3, GoalFirst2Caps, GoalFirst16, GoalFirstNoCount, GoalFirst0,
     GoalPrimesBelow, GoalFibonacci, GoalGeneric}

----------------------------------------------------------------------------
(* Engineer.test_solution                                                  *)

\* the result dict as test_solution initialises it
NewResult ==
    [success |-> FALSE, output |-> None, error |-> None, issues |-> <<>>,
     execution_time |-> {}]

\* the result of a call that found no code
NoCodeResult ==
    [NewResult EXCEPT !.error = ErrNoCode, !.issues = <<IssueNoCode>>]

ExcOSError ==
    <<"O", "S", "E", "r", "r", "o", "r">>
MsgNoSpace ==
    <<"N", "o", " ", "s", "p", "a", "c", "e", " ", "l", "e", "f", "t", " ", "o", "n", " ", "d", "e", "v", "i", "c", "e">>
ExcUnicodeEncodeError ==
    <<"U", "n", "i", "c", "o", "d", "e", "E", "n", "c", "o", "d", "e", "E", "r", "r", "o", "r">>
MsgSurrogates ==
    <<"s", "u", "r", "r", "o", "g", "a", "t", "e", "s", " ", "n", "o", "t", " ", "a", "l", "l", "o", "w", "e", "d">>
ExcFileNotFoundError ==
    <<"F", "i", "l", "e", "N", "o", "t", "F", "o", "u", "n", "d", "E", "r", "r", "o", "r">>
MsgNoPython ==
    <<"N", "o", " ", "s", "u", "c", "h", " ", "f", "i", "l", "e", " ", "o", "r", " ", "d", "i", "r", "e", "c", "t", "o", "r", "y", ":", " ", "'", "p", "y", "t", "h", "o", "n", "'">>
ExcValueError ==
    <<"V", "a", "l", "u", "e", "E", "r", "r", "o", "r">>
MsgBadTimeout ==
    <<"i", "n", "v", "a", "l", "i", "d", " ", "l", "i", "t", "e", "r", "a", "l", " ", "f", "o", "r", " ", "i", "n", "t", "(", ")">>
OutTwo ==
    <<"2", "\n">>
ErrTraceback ==
    <<"T", "r", "a", "c", "e", "b", "a", "c", "k">>

\* what the environment does to one run.  kind: "create_raises" (NamedTemporaryFile
\* raises), "write_raises" (f.write raises), "close_raises" (leaving the with block
\* raises), "spawn_raises" (subprocess.run or its arguments raise something other
\* than TimeoutExpired), "exit" (the child exits with returncode), "timeout".
\* unlink_raises: os.unlink of the temporary file raises.
Environment(kind, exc, msg, returncode, stdout, stderr, elapsed, unlink_raises) ==
    [kind |-> kind, exc |-> exc, msg |-> msg, returncode |-> returncode,
     stdout |-> stdout, stderr |-> stderr, elapsed |-> elapsed,
     unlink_raises |-> unlink_raises]

\* no run: the call returned before the execution stage
NoEnvironment ==
    Environment("none", None, None, 0, <<>>, <<>>, 0, FALSE)

\* elapsed times of a run, in ticks of the performance counter
ElapsedTicks ==
    {1, 2}

Environments ==
    {Environment("create_raises", ExcOSError, MsgNoSpace, 0, <<>>, <<>>, 0, FALSE)}
      \cup {Environment("write_raises", e[1], e[2], 0, <<>>, <<>>, 0, FALSE) :
              e \in {<<ExcUnicodeEncodeError, MsgSurrogates>>, <<ExcOSError, MsgNoSpace>>}}
      \cup {Environment("close_raises", ExcOSError, MsgNoSpace, 0, <<>>, <<>>, 0, u) :
              u \in BOOLEAN}
      \cup {Environment("spawn_raises", e[1], e[2], 0, <<>>, <<>>, 0, u) :
              e \in {<<ExcFileNotFoundError, MsgNoPython>>, <<ExcValueError, MsgBadTimeout>>},
              u \in BOOLEAN}
      \cup {Environment("exit", None, None, 0, out, <<>>, t, u) :
              out \in {<<>>, OutTwo}, t \in ElapsedTicks, u \in BOOLEAN}
      \cup {Environment("exit", None, None, 1, <<>>, err, t, u) :
              err \in {<<>>, ErrTraceback}, t \in ElapsedTicks, u \in BOOLEAN}
      \cup {Environment("timeout", None, None, 0, <<>>, <<>>, 0, u) : u \in BOOLEAN}

\* RunResult with a slip: no except clause for TimeoutExpired, which the general
\* clause then reports
RunResult_NoTimeoutClause(env) ==
    IF env.kind = "exit" /\ env.returncode = 0
        THEN [NewResult EXCEPT !.execution_time = {env.elapsed}, !.success = TRUE,
                               !.output = env.stdout]
    ELSE IF env.kind = "exit"
        THEN [NewResult EXCEPT !.execution_time = {env.elapsed}, !.error = env.stderr,
                               !.issues = <<IssueFailed>>]
    ELSE IF env.kind = "timeout"
        THEN [NewResult EXCEPT !.error = ErrTimedOut,
                               !.issues = <<IssueUnexpected \o IssueTimeout>>]
    ELSE [NewResult EXCEPT !.error = env.msg, !.issues = <<IssueUnexpected \o env.exc>>]

\* RunResult with a slip: an empty stderr is recorded as no error
RunResult_EmptyStderrIsNone(env) ==
    IF env.kind = "exit" /\ env.returncode = 0
        THEN [NewResult EXCEPT !.execution_time = {env.elapsed}, !.success = TRUE,
                               !.output = env.stdout]
    ELSE IF env.kind = "exit"
        THEN [NewResult EXCEPT !.execution_time = {env.elapsed},
                               !.error = IF env.stderr = <<>> THEN None ELSE env.stderr,
                               !.issues = <<IssueFailed>>]
    ELSE IF env.kind = "timeout"
        THEN [NewResult EXCEPT !.error = ErrTimedOut, !.issues = <<IssueTimeout>>]
    ELSE [NewResult EXCEPT !.error = env.msg, !.issues = <<IssueUnexpected \o env.exc>>]

\* the result dict at the return of a call that reached the execution stage
RunResult(env) ==
    IF env.kind = "exit" /\ env.returncode = 0
        THEN [NewResult EXCEPT !.execution_time = {env.elapsed}, !.success = TRUE,
                               !.output = env.stdout]
    ELSE IF env.kind = "exit"
        THEN [NewResult EXCEPT !.execution_time = {env.elapsed}, !.error = env.stderr,
                               !.issues = <<IssueFailed>>]
    ELSE IF env.kind = "timeout"
        THEN [NewResult EXCEPT !.error = ErrTimedOut, !.issues = <<IssueTimeout>>]
    ELSE [NewResult EXCEPT !.error = env.msg, !.issues = <<IssueUnexpected \o env.exc>>]

\* the child process at the return of the call: subprocess.run waits for it, and
\* kills it and waits when the timeout expires
ChildAtReturn(env) ==
    IF env.kind = "exit" THEN "exited"
    ELSE IF env.kind = "timeout" THEN "killed"
    ELSE "none"

\* the temporary file was created on disk
FileCreated(env) ==
    env.kind # "create_raises"

\* temp_file was assigned before the exception, if any, was raised
TempFileKnown(env) ==
    env.kind \notin {"create_raises", "write_raises"}

\* the finally clause removed the file
FileUnlinked(env) ==
    TempFileKnown(env) /\ ~env.unlink_raises

Call(goal, solution, env, source, result, child) ==
    [goal |-> goal, solution |-> solution, env |-> env, source |-> source,
     result |-> result, child |-> child]

\* lines 112-155 for a proposal: None when extract_code finds no code, else the
\* extracted code with the main shim, which is the text written to the file
FinalSource(proposal) ==
    LET code == extract_code(proposal.solution)
    IN  IF code = None \/ code = <<>> THEN None ELSE MainShim(code, proposal.goal)

test_solution(proposal, source, env) ==
    LET name == calls + 1
    IN  /\ calls' = calls + 1
        /\ IF source = None
           THEN /\ lastCall' = Call(proposal.goal, proposal.solution, NoEnvironment,
                                    None, NoCodeResult, "none")
                /\ UNCHANGED <<test_results, tempFiles, swallowed>>
           ELSE /\ lastCall' = Call(proposal.goal, proposal.solution, env,
                                    source, RunResult(env), ChildAtReturn(env))
                /\ tempFiles' = IF FileCreated(env) /\ ~FileUnlinked(env)
                                THEN tempFiles \cup {name} ELSE tempFiles
                /\ swallowed' = IF TempFileKnown(env) /\ env.unlink_raises
                                THEN swallowed \cup {name} ELSE swallowed
                /\ test_results' = Append(test_results, RunResult(env))

----------------------------------------------------------------------------
(* States of the specifications.  Each specification moves its own   *)
(* variables and leaves the others at rest.                                *)

\* a value not computed yet
Pending ==
    <<"Pending">>

\* Engineer.__init__, with no temporary file on disk
EngineerInit ==
    /\ test_results = <<>>
    /\ tempFiles = {}
    /\ swallowed = {}
    /\ calls = 0
    /\ lastCall = Call(None, None, NoEnvironment, None, NewResult, "none")

ExtractIdle ==
    exText = None /\ exResult = Pending /\ exAgain = Pending

ValidateIdle ==
    vOutput = None /\ vGoal = None /\ vResult = Validation(FALSE, 0, <<>>) /\ vReturned = FALSE /\ vRaised = FALSE

ShimIdle ==
    shCode = None /\ shGoal = None /\ shSource = Pending

----------------------------------------------------------------------------
(* SpecExtract: extract_code applied to a text, and again to its result.   *)

InitExtract ==
    /\ EngineerInit
    /\ ValidateIdle
    /\ ShimIdle
    /\ exText \in ExTexts
    /\ exResult = Pending
    /\ exAgain = Pending

ExtractCode ==
    /\ exResult = Pending
    /\ exResult' = extract_code(exText)
    /\ UNCHANGED <<exText, exAgain, engineerVars, validateVars, shimVars>>

ExtractAgain ==
    /\ exResult # Pending
    /\ exResult # None
    /\ exAgain = Pending
    /\ exAgain' = extract_code(exResult)
    /\ UNCHANGED <<exText, exResult, engineerVars, validateVars, shimVars>>

NextExtract ==
    ExtractCode \/ ExtractAgain

SpecExtract ==
    InitExtract /\ [][NextExtract]_vars

----------------------------------------------------------------------------
(* Claims about extract_code, checked under SpecExtract.                   *)

ClaimTagged ==
    FencedBlocks(exText, TaggedOpen)

ClaimUntagged ==
    FencedBlocks(exText, UntaggedOpen)

ClaimScan ==
    ScanLines(SplitLines(exText), 1, FALSE, <<>>)

IsLongestOf(r, blocks) ==
    /\ \E k \in 1..Len(blocks) : blocks[k] = r
    /\ \A k \in 1..Len(blocks) : Len(blocks[k]) <= Len(r)

\* the tokens import, def, print as the claim names them
ClaimHasToken(code) ==
    Contains(code, TokImport) \/ Contains(code, TokDef) \/ Contains(code, TokPrint)

ClaimScanResult ==
    IF ClaimScan # <<>> THEN JoinLines(ClaimScan) ELSE None

\* C8: extract_code applies its rules in priority order, first match wins: with a
\* tagged fenced region the longest tagged region is returned, whatever else the
\* text holds; else the longest untagged region is returned, and only if it
\* contains import, def or print; else the line scan's result; else nothing.
\* The returned text is a contiguous, unmodified part of the input.
C8_ExtractPriority ==
    exResult # Pending =>
        /\ ClaimTagged # <<>> => IsLongestOf(exResult, ClaimTagged)
        /\ (ClaimTagged = <<>> /\ ClaimUntagged # <<>>) =>
              \/ IsLongestOf(exResult, ClaimUntagged) /\ ClaimHasToken(exResult)
              \/ ~HasCodeToken(MaxByLen(ClaimUntagged)) /\ exResult = ClaimScanResult
        /\ (ClaimTagged = <<>> /\ ClaimUntagged = <<>>) => exResult = ClaimScanResult
        /\ exResult # None => Contains(exText, exResult)

\* C8 witness: a tagged region was returned although a longer untagged region
\* and unfenced code lines are present
C8_Witness ==
    /\ exResult # Pending
    /\ ClaimTagged # <<>>
    /\ ClaimUntagged # <<>>
    /\ Len(MaxByLen(ClaimUntagged)) > Len(exResult)
    /\ HasCodeToken(MaxByLen(ClaimUntagged))
    /\ ClaimScan # <<>>
    /\ exResult = MaxByLen(ClaimTagged)

Unfenced(s) ==
    ~Contains(s, Fence)

\* no line of s starts with a statement keyword the scan knows
KeywordFree(s) ==
    \A k \in 1..Len(SplitLines(s)) :
        ~\E p \in StatementPrefixes : StartsWith(Strip(SplitLines(s)[k]), p)

\* s without its trailing whitespace
RStrip(s) ==
    LET keep == {k \in 1..Len(s) : ~IsSpace(s[k])}
    IN  IF keep = {} THEN <<>> ELSE SubSeq(s, 1, Max(keep))

NoProseLine(s) ==
    \A k \in 1..Len(SplitLines(s)) : ~ReentersProse(Strip(SplitLines(s)[k]))

----------------------------------------------------------------------------
(* SpecValidate: validate_output applied to an output and a goal.          *)

InitValidate ==
    /\ EngineerInit
    /\ ExtractIdle
    /\ ShimIdle
    /\ vOutput \in VOutputs
    /\ vGoal \in VGoals
    /\ vResult = Validation(FALSE, 0, <<>>)
    /\ vReturned = FALSE
    /\ vRaised = FALSE

ValidateOutput ==
    /\ ~vReturned
    /\ ~vRaised
    /\ IF validate_output_raises(vOutput, vGoal)
       THEN /\ vRaised' = TRUE
            /\ UNCHANGED <<vResult, vReturned>>
       ELSE /\ vResult' = validate_output(vOutput, vGoal)
            /\ vReturned' = TRUE
            /\ UNCHANGED vRaised
    /\ UNCHANGED <<vOutput, vGoal, engineerVars, extractVars, shimVars>>

NextValidate ==
    ValidateOutput

SpecValidate ==
    InitValidate /\ [][NextValidate]_vars

----------------------------------------------------------------------------
(* Claims about validate_output, checked under SpecValidate.               *)

\* p is prime: at least 2 and divisible by no number between 1 and itself
IsPrimeByDefinition(p) ==
    p >= 2 /\ \A d \in 2..(p - 1) : p % d # 0

RECURSIVE PrimesByDefinitionFrom(_, _)
\* the n least primes that are at least x
PrimesByDefinitionFrom(n, x) ==
    IF n = 0 THEN <<>>
    ELSE IF IsPrimeByDefinition(x) THEN <<x>> \o PrimesByDefinitionFrom(n - 1, x + 1)
    ELSE PrimesByDefinitionFrom(n, x + 1)

ClaimGoalHas(word) ==
    Contains(Lower(vGoal), word)

ClaimGoalCounts ==
    DigitRunsFrom(Lower(vGoal), 1)

\* the literal count N of the goal
ClaimN ==
    ToInt(ClaimGoalCounts[1])

ClaimNumbers ==
    OutputNumbers(vOutput)

ClaimFirstNCase ==
    /\ vReturned
    /\ ClaimGoalHas(WordPrime)
    /\ ClaimGoalHas(WordFirst)
    /\ ClaimGoalCounts # <<>>

ClaimFirstNVerdict ==
    IF Take(ClaimNumbers, ClaimN) = PrimesByDefinitionFrom(ClaimN, 2)
    THEN vResult.meets_goal /\ vResult.confidence = 98
    ELSE ~vResult.meets_goal /\ vResult.confidence = 20

C6_WitnessReject ==
    /\ ClaimFirstNCase
    /\ ClaimN = 3
    /\ Len(ClaimNumbers) >= 3
    /\ ~vResult.meets_goal
    /\ vResult.confidence = 20

ClaimNoSignal ==
    \/ vOutput = <<>>
    \/ Strip(vOutput) = <<>>
    \/ ClaimGoalHas(WordPrime) /\ ClaimNumbers = <<>>
    \/ ~ClaimGoalHas(WordPrime) /\ ClaimGoalHas(WordFibonacci) /\ Len(ClaimNumbers) < 5
    \/ ~ClaimGoalHas(WordPrime) /\ ~ClaimGoalHas(WordFibonacci) /\ Len(Strip(vOutput)) <= 10

\* C7: validate_output never raises: every call returns a result; without a
\* signal (blank output, no integer for a prime goal, fewer than 5 integers for a
\* fibonacci goal, at most 10 characters for any other goal) the result has
\* meetsGoal false and confidence 0.0, and for blank output the one note
\* "No output produced"; meetsGoal implies a confidence above 0, and every
\* confidence lies in [0, 1].
C7_NeverErrorsNoSignalIsZero ==
    /\ ~vRaised
    /\ vReturned =>
           /\ DOMAIN vResult = {"meets_goal", "confidence", "notes"}
           /\ vResult.meets_goal \in BOOLEAN
           /\ vResult.confidence \in 0..100
           /\ ClaimNoSignal => (~vResult.meets_goal /\ vResult.confidence = 0)
           /\ Strip(vOutput) = <<>> => vResult.notes = <<NoteNoOutput>>
           /\ vResult.meets_goal => vResult.confidence > 0

\* C7 without its first conjunct: what holds of every call that returns
C7_ReturnedNoSignalIsZero ==
    vReturned =>
        /\ DOMAIN vResult = {"meets_goal", "confidence", "notes"}
        /\ vResult.meets_goal \in BOOLEAN
        /\ vResult.confidence \in 0..100
        /\ ClaimNoSignal => (~vResult.meets_goal /\ vResult.confidence = 0)
        /\ Strip(vOutput) = <<>> => vResult.notes = <<NoteNoOutput>>
        /\ vResult.meets_goal => vResult.confidence > 0

----------------------------------------------------------------------------
(* Spec: an Engineer and its calls of test_solution.                       *)

MaxCalls ==
    2


SolProse ==
    <<"J", "u", "s", "t", " ", "t", "h", "i", "n", "k", " ", "a", "b", "o", "u", "t", " ", "i", "t", ".">>
SolTagged ==
    <<"U", "s", "e", ":", "\n", Backtick, Backtick, Backtick, "p", "y", "t", "h", "o", "n", "\n", "d", "e", "f", " ", "s", "o", "l", "v", "e", "(", "n", ")", ":", "\n", " ", " ", " ", " ", "r", "e", "t", "u", "r", "n", " ", "n", "\n", Backtick, Backtick, Backtick>>
SolPrints ==
    <<"i", "m", "p", "o", "r", "t", " ", "o", "s", "\n", "p", "r", "i", "n", "t", "(", "o", "s", ".", "n", "a", "m", "e", ")">>
GoalFirst10 ==
    <<"f", "i", "r", "s", "t", " ", "1", "0", " ", "p", "r", "i", "m", "e", "s">>
Solutions ==
    {SolProse, SolTagged, SolPrints}

Goals ==
    {GoalFirst10, GoalGeneric}

Proposals ==
    {[goal |-> g, solution |-> t] : g \in Goals, t \in Solutions}

\* FinalSource, tabulated over the proposals
SourceOf ==
    [proposal \in Proposals |-> FinalSource(proposal)]

Init ==
    /\ EngineerInit
    /\ ExtractIdle
    /\ ValidateIdle
    /\ ShimIdle

TestSolution ==
    /\ calls < MaxCalls
    /\ \E proposal \in Proposals, env \in Environments :
           test_solution(proposal, SourceOf[proposal], env)
    /\ UNCHANGED <<extractVars, validateVars, shimVars>>

Next ==
    TestSolution

Spec ==
    Init /\ [][Next]_vars

----------------------------------------------------------------------------
(* SpecShim: the main shim of test_solution applied to a code and a goal.  *)

MaxShimLines ==
    3

ShLineHelper ==
    <<"d", "e", "f", " ", "h", "e", "l", "p", "e", "r", "(", "x", ")", ":">>
ShLineFind ==
    <<"d", "e", "f", " ", "F", "i", "n", "d", "_", "i", "t", "(", "n", ")", ":">>
ShLineRun ==
    <<"d", "e", "f", " ", "r", "u", "n", " ", "(", " ", ")", ":">>
ShLineTyped ==
    <<"d", "e", "f", " ", "t", "y", "p", "e", "d", "(", ")", " ", "-", ">", " ", "i", "n", "t", ":">>
ShLineReturn ==
    <<" ", " ", " ", " ", "r", "e", "t", "u", "r", "n", " ", "1">>
ShLinePrint ==
    <<"p", "r", "i", "n", "t", "(", "r", "u", "n", "(", ")", ")">>
ShLineGuard ==
    <<"i", "f", " ", "_", "_", "n", "a", "m", "e", "_", "_", " ", "=", "=", " ", "\"", "_", "_", "m", "a", "i", "n", "_", "_", "\"", ":">>
ShGoalFirst10 ==
    <<"F", "i", "n", "d", " ", "t", "h", "e", " ", "f", "i", "r", "s", "t", " ", "1", "0", " ", "P", "R", "I", "M", "E", "S">>
ShGoalFirstNoCount ==
    <<"l", "i", "s", "t", " ", "t", "h", "e", " ", "f", "i", "r", "s", "t", " ", "p", "r", "i", "m", "e", "s">>
ShGoalPrime7 ==
    <<"i", "s", " ", "7", " ", "p", "r", "i", "m", "e", "?", " ", "o", "r", " ", "9">>
ShGoalPrimes ==
    <<"p", "r", "i", "n", "t", " ", "s", "o", "m", "e", " ", "p", "r", "i", "m", "e", "s">>
ShGoalFirstItems ==
    <<"f", "i", "r", "s", "t", " ", "3", " ", "i", "t", "e", "m", "s">>
ShGoalSort ==
    <<"s", "o", "r", "t", " ", "a", " ", "l", "i", "s", "t">>

ShimLines ==
    {ShLineHelper, ShLineFind, ShLineRun, ShLineTyped, ShLineReturn, ShLinePrint,
     ShLineGuard}

ShimCodes ==
    {JoinLines(ls) : ls \in SeqsUpTo(ShimLines, MaxShimLines) \ {<<>>}}

ShimGoals ==
    {ShGoalFirst10, ShGoalFirstNoCount, ShGoalPrime7, ShGoalPrimes, ShGoalFirstItems,
     ShGoalSort}

InitShim ==
    /\ EngineerInit
    /\ ExtractIdle
    /\ ValidateIdle
    /\ shCode \in ShimCodes
    /\ shGoal \in ShimGoals
    /\ shSource = Pending

AddMainShim ==
    /\ shSource = Pending
    /\ shSource' = MainShim(shCode, shGoal)
    /\ UNCHANGED <<shCode, shGoal, engineerVars, extractVars, validateVars>>

NextShim ==
    AddMainShim

SpecShim ==
    InitShim /\ [][NextShim]_vars

----------------------------------------------------------------------------
(* Claim about the main shim, checked under SpecShim.                      *)

ClaimFunctions ==
    FunctionsFrom(shCode, 1)

\* the shim applies: no guard, no print call, at least one definition
ClaimSelects ==
    /\ ~Contains(shCode, TokDunderMain)
    /\ ~Contains(shCode, TokPrintCall)
    /\ ClaimFunctions # <<>>

ClaimGoalPrime ==
    Contains(Lower(shGoal), WordPrime)

ClaimGoalFirst ==
    Contains(Lower(shGoal), WordFirst)

ClaimGoalIntegers ==
    DigitRunsFrom(Lower(shGoal), 1)

\* the code followed by a guarded call func(argument) whose value is printed
ClaimWithCall(func, argument) ==
    shCode \o ShimGuard \o ShimAssign \o func \o OpenParen \o argument \o ShimClose
           \o ShimPrint

ClaimCalls(argument) ==
    \E k \in 1..Len(ClaimFunctions) : shSource = ClaimWithCall(ClaimFunctions[k], argument)

\* C10: when the shim selects a callable, the code gets an epilogue that calls it
\* with the first integer of the goal if the goal has "prime" and an integer, with
\* 40 if the goal has "prime" and "first" and no integer, with no argument
\* otherwise, and prints the value; code with a guard or a print call, or without a
\* callable, stays as it is.
C10_ShimArgument ==
    shSource # Pending =>
        /\ ~ClaimSelects => shSource = shCode
        /\ (ClaimSelects /\ ClaimGoalPrime /\ ClaimGoalIntegers # <<>>)
              => ClaimCalls(ClaimGoalIntegers[1])
        /\ (ClaimSelects /\ ClaimGoalPrime /\ ClaimGoalFirst /\ ClaimGoalIntegers = <<>>)
              => ClaimCalls(ShimDefaultArg)
        /\ (ClaimSelects /\ ~ClaimGoalPrime) => ClaimCalls(<<>>)
        /\ (ClaimSelects /\ ~ClaimGoalFirst /\ ClaimGoalIntegers = <<>>) => ClaimCalls(<<>>)

\* C10 witness: a goal with "prime" and two integers led to a call with the first
C10_Witness ==
    /\ shSource # Pending
    /\ ClaimSelects
    /\ ClaimGoalPrime
    /\ Len(ClaimGoalIntegers) >= 2
    /\ ClaimGoalIntegers[1] # ClaimGoalIntegers[2]
    /\ ClaimCalls(ClaimGoalIntegers[1])

----------------------------------------------------------------------------
(* Claims about test_solution, checked under Spec.                         *)

ClaimRan ==
    calls > 0 /\ lastCall.env.kind # "none"

ClaimHasIssue(result, issue) ==
    \E k \in 1..Len(result.issues) : result.issues[k] = issue

\* C1: when a call returns, the temporary file it created is gone, on every exit
\* path; no file of a finished call remains (unless os.unlink itself failed, which
\* is swallowed)
C1_TempFileRemoved ==
    tempFiles \subseteq swallowed

\* C2: the result of a run is data fixed by the outcome of the child: exit code 0
\* gives success with output = stdout; a nonzero exit gives failure, error = stderr
\* and the issue "Code execution failed"; a timeout gives failure, error "Code
\* execution timed out", the issue "TimeoutExpired" and a killed child; any other
\* failure gives failure, error = its message and an issue that names its type.
C2_ResultFollowsOutcome ==
    ClaimRan =>
        LET env == lastCall.env
            result == lastCall.result
        IN  /\ (env.kind = "exit" /\ env.returncode = 0) =>
                  (result.success /\ result.output = env.stdout)
            /\ (env.kind = "exit" /\ env.returncode # 0) =>
                  /\ ~result.success
                  /\ result.error = env.stderr
                  /\ ClaimHasIssue(result, IssueFailed)
            /\ env.kind = "timeout" =>
                  /\ ~result.success
                  /\ result.error = ErrTimedOut
                  /\ ClaimHasIssue(result, IssueTimeout)
                  /\ lastCall.child = "killed"
            /\ env.kind \in {"create_raises", "write_raises", "close_raises", "spawn_raises"} =>
                  /\ ~result.success
                  /\ result.error = env.msg
                  /\ \E k \in 1..Len(result.issues) : EndsWith(result.issues[k], env.exc)

\* C2 witness: a run that timed out returned its result
C2_Witness ==
    /\ ClaimRan
    /\ lastCall.env.kind = "timeout"
    /\ lastCall.result.error = ErrTimedOut
    /\ test_results # <<>>

ClaimWellFormed(result) ==
    /\ result.success => (result.output # None /\ result.error = None)
    /\ ~result.success => result.error # None

\* C3: every result of test_solution, returned or in the history, has an output and
\* no error when it is a success, and an error when it is not
C3_ResultWellFormed ==
    /\ calls > 0 => ClaimWellFormed(lastCall.result)
    /\ \A k \in 1..Len(test_results) : ClaimWellFormed(test_results[k])

\* C3 witness: results of three kinds: a nonzero exit with an empty stderr in the
\* history, followed by a call that found no code
C3_Witness ==
    /\ calls = 2
    /\ Len(test_results) = 1
    /\ ~test_results[1].success
    /\ test_results[1].error = <<>>
    /\ lastCall.result = NoCodeResult

\* C4: executionTime is set on every path reached after the spawn began: exit with
\* code 0, nonzero exit and timeout
C4_ExecutionTimeRecorded ==
    (ClaimRan /\ lastCall.env.kind \in {"exit", "timeout"}) =>
        lastCall.result.execution_time # {}

\* C5: the history holds, in call order, one entry for each result returned, the
\* result of a call that found no code included
C5_HistoryHoldsEveryResult ==
    /\ Len(test_results) = calls
    /\ calls > 0 => test_results[Len(test_results)] = lastCall.result

====
